---- MODULE Spec2Model ----
(***************************************************************************)
(* A model of the request-dispatch pipeline of the sketch HTTP framework:  *)
(* the route table and pattern compiler (router.py), the dispatch entry    *)
(* point Application._handler (application.py), the error taxonomy         *)
(* (exceptions.py), the generic-failure formatter (helpers.py), response   *)
(* serialization (response.py), the connection adapter (server.py,         *)
(* http_parser.py) and the startup and shutdown hooks (application.py).    *)
(*                                                                         *)
(* Text is modelled as a sequence of one-character strings, so that        *)
(* lengths, prefixes and substrings are what they are in the program.      *)
(***************************************************************************)
EXTENDS Integers, Sequences, FiniteSets, TLC

VARIABLES
    routes,       \* UrlDispatcher._routes, in insertion order
    resolution,   \* the last call of UrlDispatcher.resolve and what it gave
    middlewares,  \* Application._middlewares
    transport,    \* Server._transport of the protocol instance
    url,          \* Server._url of the protocol instance
    conn,         \* state of every connection of the event loop
    wire,         \* what was written to every connection
    tasks,        \* the tasks created by on_message_complete
    response,     \* a Response under construction
    written,      \* what str(response).encode() gave for it
    on_startup,   \* Application._on_startup
    on_shutdown,  \* Application._on_shutdown
    lifecycle     \* the call of startup() or shutdown() in progress

\* the state of the dispatch pipeline
dispatchVars == <<routes, resolution, middlewares, transport, url, conn, wire, tasks>>

\* the state of a Response on its own
responseVars == <<response, written>>

\* the state of the startup and shutdown hooks
hookVars == <<on_startup, on_shutdown, lifecycle>>

vars == <<dispatchVars, responseVars, hookVars>>

(***************************************************************************)
(* Bounds of the model.                                                    *)
(***************************************************************************)
MaxRoutes == 2      \* entries of the route table
MaxConns == 2       \* connections accepted by the server
MaxRequests == 1    \* complete messages the parser reports
MaxPipelined == 1   \* further complete messages on a connection with a request
MaxHeaders == 2     \* headers added to a Response
MaxHooks == 2       \* hooks in a hook list

None == "None"

\* an optional value: absent, or present with a value
Nothing == <<>>

Some(x) == <<x>>

(***************************************************************************)
(* Text helpers.                                                           *)
(***************************************************************************)
Letters ==
    {"a", "b", "c", "d", "e", "f", "g", "h", "i", "j", "k", "l", "m", "n", "o", "p", "q",
     "r", "s", "t", "u", "v", "w", "x", "y", "z"}

Digits == {"0", "1", "2", "3", "4", "5", "6", "7", "8", "9"}

\* the characters the regular expression class \w matches
WordChars == Letters \cup Digits \cup {"_"}

Slice(s, from, to) == [k \in 1..(to - from + 1) |-> s[from + k - 1]]

\* text s occurs in text b (Python's  s in b)
Contains(b, s) ==
    \E i \in 0..(Len(b) - Len(s)) : \A k \in 1..Len(s) : b[i + k] = s[k]

\* the number of characters of s from position pos on that are word characters
RECURSIVE WordRun(_, _)
WordRun(s, pos) ==
    IF pos <= Len(s) /\ s[pos] \in WordChars THEN 1 + WordRun(s, pos + 1) ELSE 0

MethodText ==
    [GET |-> <<"G", "E", "T">>, POST |-> <<"P", "O", "S", "T">>, PUT |-> <<"P", "U", "T">>]

(***************************************************************************)
(* Inputs: the paths handed to add_route and the raw paths of requests.    *)
(***************************************************************************)
Methods == {"GET", "POST"}

ReqMethods == {"GET", "POST"}

Handlers == {"h1", "h2"}

P_foo == <<"/", "f", "o", "o">>
P_bar == <<"/", "b", "a", "r">>
P_username == <<"/", "{", "u", "s", "e", "r", "n", "a", "m", "e", "}">>
P_user_posts == <<"/", "u", "/", "{", "i", "d", "}", "/", "p">>
P_ab == <<"/", "{", "a", "}", "{", "b", "}">>

RoutePaths == {P_foo, P_username, P_user_posts, P_ab}

R_alice == <<"/", "a", "l", "i", "c", "e">>
R_alice_extra == <<"/", "a", "l", "i", "c", "e", "/", "e", "x", "t", "r", "a">>
R_user_other == <<"/", "u", "/", "1", "/", "o">>

ReqPaths == {P_foo, P_bar, R_alice, R_alice_extra, R_user_other}

\* the raw paths of the requests the served application receives
ServedPaths == {R_alice, R_alice_extra, R_user_other}

(***************************************************************************)
(* UrlDispatcher: pattern compilation.  A compiled pattern is the sequence *)
(* of the regular expression's items: a literal character, or a named      *)
(* group (?P<name>\w+).                                                    *)
(***************************************************************************)
Lit(c) == [t |-> "lit", v |-> <<c>>]

Grp(name) == [t |-> "grp", v |-> name]

Lits(s) == [k \in 1..Len(s) |-> Lit(s[k])]

\* _param_regex matches at position i of path: "{", one or more word
\* characters, "}"
ParamAt(path, i) ==
    /\ i <= Len(path)
    /\ path[i] = "{"
    /\ WordRun(path, i + 1) >= 1
    /\ i + 1 + WordRun(path, i + 1) <= Len(path)
    /\ path[i + 1 + WordRun(path, i + 1)] = "}"

\* re.finditer: the start of the leftmost match at or after position from,
\* or 0 when there is none
RECURSIVE NextParam(_, _)
NextParam(path, from) ==
    IF from > Len(path) THEN 0
    ELSE IF ParamAt(path, from) THEN from
    ELSE NextParam(path, from + 1)

\* the loop of _format_pattern, from the scan position pos with last_pos and
\* the regex built so far; the text after the last match is not appended
RECURSIVE FormatLoop(_, _, _, _)
FormatLoop(path, pos, last_pos, regex) ==
    LET s == NextParam(path, pos) IN
    IF s = 0 THEN regex
    ELSE LET n == WordRun(path, s + 1) IN
         FormatLoop(path, s + n + 2, s + n + 2,
                    regex \o Lits(Slice(path, last_pos, s - 1))
                          \o <<Grp(Slice(path, s + 1, s + n))>>)

_format_pattern(path) == FormatLoop(path, 1, 1, <<>>)

(***************************************************************************)
(* re.match(pattern, text): anchored at the start of the text, not at its  *)
(* end; \w+ is greedy and backtracks.                                      *)
(***************************************************************************)
NoMatch == [ok |-> FALSE, end |-> 0, groups |-> <<>>]

GroupNames(pattern) == {pattern[k].v : k \in {j \in 1..Len(pattern) : pattern[j].t = "grp"}}

NumGroups(pattern) == Cardinality({j \in 1..Len(pattern) : pattern[j].t = "grp"})

\* re.compile rejects a pattern that names two groups alike
BadPattern(pattern) == Cardinality(GroupNames(pattern)) # NumGroups(pattern)

RECURSIVE MatchFrom(_, _, _, _)
RECURSIVE TryGroup(_, _, _, _, _)
\* match pattern[k..] against text[pos..]; groups is a sequence of
\* <<name, value>> pairs in pattern order
MatchFrom(pattern, k, text, pos) ==
    IF k > Len(pattern) THEN [ok |-> TRUE, end |-> pos - 1, groups |-> <<>>]
    ELSE IF pattern[k].t = "lit"
         THEN IF pos <= Len(text) /\ text[pos] = pattern[k].v[1]
              THEN MatchFrom(pattern, k + 1, text, pos + 1)
              ELSE NoMatch
         ELSE TryGroup(pattern, k, text, pos, WordRun(text, pos))

\* the group pattern[k] takes n characters, then n - 1, ... down to 1
TryGroup(pattern, k, text, pos, n) ==
    IF n < 1 THEN NoMatch
    ELSE LET r == MatchFrom(pattern, k + 1, text, pos + n) IN
         IF r.ok
         THEN [ok |-> TRUE, end |-> r.end,
               groups |-> <<<<pattern[k].v, Slice(text, pos, pos + n - 1)>>>> \o r.groups]
         ELSE TryGroup(pattern, k, text, pos, n - 1)

re_match(pattern, text) == MatchFrom(pattern, 1, text, 1)

\* groupdict that loses the last group
groupdict_without_last(m) ==
    [name \in {m.groups[k][1] : k \in 1..(Len(m.groups) - 1)} |->
        m.groups[CHOOSE k \in 1..Len(m.groups) : m.groups[k][1] = name][2]]

\* match.groupdict(): the map from group name to matched text
groupdict(m) ==
    [name \in {m.groups[k][1] : k \in 1..Len(m.groups)} |->
        m.groups[CHOOSE k \in 1..Len(m.groups) : m.groups[k][1] = name][2]]

(***************************************************************************)
(* UrlDispatcher: the route table.  The dict keyed by (method, pattern) is *)
(* a sequence of entries in insertion order; assigning to a key that is    *)
(* present replaces the value in place.  An entry also remembers the path  *)
(* its handler was registered with; the program does not keep it.          *)
(***************************************************************************)
KeyIndex(rs, method, pattern) ==
    {i \in 1..Len(rs) : rs[i].method = method /\ rs[i].pattern = pattern}

\* a table that appends an entry for every registration
add_route_append(rs, method, path, handler) ==
    Append(rs, [method |-> method, pattern |-> _format_pattern(path), handler |-> handler,
                path |-> path])

add_route(rs, method, path, handler) ==
    LET pattern == _format_pattern(path)
        entry == [method |-> method, pattern |-> pattern, handler |-> handler, path |-> path]
    IN IF KeyIndex(rs, method, pattern) # {}
       THEN [rs EXCEPT ![CHOOSE i \in KeyIndex(rs, method, pattern) : TRUE] = entry]
       ELSE Append(rs, entry)

(***************************************************************************)
(* Response and the error taxonomy.                                        *)
(***************************************************************************)
T_text_plain == <<"t", "e", "x", "t", "/", "p", "l", "a", "i", "n">>
T_text_html == <<"t", "e", "x", "t", "/", "h", "t", "m", "l">>
T_hello == <<"h", "e", "l", "l", "o">>
T_nope == <<"n", "o", "p", "e">>
T_boom == <<"b", "o", "o", "m">>
T_location == <<"L", "o", "c", "a", "t", "i", "o", "n">>
T_login == <<"/", "l", "o", "g", "i", "n">>

\* Response.__init__; body is Nothing for None; headers is the dict as a
\* sequence of <<key, value>> pairs in insertion order
Response(body, status, content_type) ==
    [cls |-> "Response", body |-> body, status |-> status, content_type |-> content_type,
     headers |-> <<>>, version |-> <<"1", ".", "1">>]

add_body(resp, data) == [resp EXCEPT !.body = Some(data)]

HeaderIndex(resp, key) == {i \in 1..Len(resp.headers) : resp.headers[i][1] = key}

add_header(resp, key, value) ==
    IF HeaderIndex(resp, key) # {}
    THEN [resp EXCEPT !.headers[CHOOSE i \in HeaderIndex(resp, key) : TRUE] = <<key, value>>]
    ELSE [resp EXCEPT !.headers = Append(@, <<key, value>>)]

status_code == [HTTPNotFound |-> 404, HTTPBadRequest |-> 400, HTTPFound |-> 302]

ExceptionClasses == {"HTTPNotFound", "HTTPBadRequest", "HTTPFound"}

\* HTTPException.__init__ of the class cls; reason is optional, content_type
\* is left at None by every caller in the program
HTTPException(cls, reason) ==
    [Response(reason, status_code[cls], T_text_plain) EXCEPT !.cls = cls]

HTTPNotFound(reason) == HTTPException("HTTPNotFound", reason)

HTTPBadRequest(reason) == HTTPException("HTTPBadRequest", reason)

HTTPFound(location, reason) == add_header(HTTPException("HTTPFound", reason), T_location, location)

\* isinstance(x, Response)
IsResponse(x) == x.cls \in {"Response"} \cup ExceptionClasses

\* isinstance(x, HTTPException)
IsHTTPException(x) == x.cls \in ExceptionClasses

(***************************************************************************)
(* helpers.format_exception                                                *)
(***************************************************************************)
templ_head ==
    <<"\n", "<", "d", "i", "v", ">", "\n", " ", " ", " ", " ", "<", "h", "1", ">", "5", "0",
    "0", " ", "I", "n", "t", "e", "r", "n", "a", "l", " ", "s", "e", "r", "v", "e", "r", " ",
    "e", "r", "r", "o", "r", "<", "/", "h", "1", ">", "\n", " ", " ", " ", " ", "<", "s", "p",
    "a", "n", ">", "S", "e", "r", "v", "e", "r", " ", "g", "o", "t", " ", "i", "t", "s", "e",
    "l", "f", " ", "i", "n", " ", "t", "r", "o", "u", "b", "l", "e", " ", ":", " ", "<", "b",
    ">">>

templ_mid ==
    <<"<", "/", "b", ">", "<", "s", "p", "a", "n", ">", "\n", " ", " ", " ", " ", "<", "p",
    ">">>

templ_tail ==
    <<"<", "/", "p", ">", "\n", "<", "/", "d", "i", "v", ">", "\n">>

\* the texts traceback.format_exc() can give, after "\n" became "</br>"
Traces == {<<"T", "b", "<", "/", "b", "r", ">">>}

\* format_exception that leaves the content type at its default
format_exception_plain(exc, trace) ==
    add_body(Response(Nothing, 500, T_text_plain),
             templ_head \o exc \o templ_mid \o trace \o templ_tail)

\* exc is the str() of the failure
format_exception(exc, trace) ==
    add_body(Response(Nothing, 500, T_text_html),
             templ_head \o exc \o templ_mid \o trace \o templ_tail)

(***************************************************************************)
(* Response.__str__ and the encoding of the text written to the transport. *)
(***************************************************************************)
DigitChar == <<"0", "1", "2", "3", "4", "5", "6", "7", "8", "9">>

\* the decimal text of a natural number, as an f-string formats it
RECURSIVE Dec(_)
Dec(n) == IF n < 10 THEN <<DigitChar[n + 1]>> ELSE Dec(n \div 10) \o <<DigitChar[(n % 10) + 1]>>

\* the entries of http.server.BaseHTTPRequestHandler.responses the program
\* can look up; a status that is not in the table gives None
web_responses ==
    [s \in {200, 302, 400, 404, 500} |->
        CASE s = 200 -> <<"O", "K">>
          [] s = 302 -> <<"F", "o", "u", "n", "d">>
          [] s = 400 -> <<"B", "a", "d", " ", "R", "e", "q", "u", "e", "s", "t">>
          [] s = 404 -> <<"N", "o", "t", " ", "F", "o", "u", "n", "d">>
          [] s = 500 -> <<"I", "n", "t", "e", "r", "n", "a", "l", " ", "S", "e", "r", "v", "e",
                          "r", " ", "E", "r", "r", "o", "r">>]

L_http == <<"H", "T", "T", "P", "/">>
L_content_type == <<"C", "o", "n", "t", "e", "n", "t", "-", "T", "y", "p", "e", ":", " ">>
L_content_length ==
    <<"C", "o", "n", "t", "e", "n", "t", "-", "L", "e", "n", "g", "t", "h", ":", " ">>
L_connection_close ==
    <<"C", "o", "n", "n", "e", "c", "t", "i", "o", "n", ":", " ", "c", "l", "o", "s", "e">>

\* "\n".join(lines)
RECURSIVE Join(_)
Join(lines) ==
    IF lines = <<>> THEN <<>>
    ELSE IF Len(lines) = 1 THEN lines[1]
    ELSE lines[1] \o <<"\n">> \o Join(Tail(lines))

HeaderLines(resp) ==
    [k \in 1..Len(resp.headers) |-> resp.headers[k][1] \o <<":", " ">> \o resp.headers[k][2]]

\* Response.__str__: the text, or a TypeError when the status has no reason
\* phrase (None is unpacked) or the body is None (len(None))
StrFails(resp) == resp.status \notin DOMAIN web_responses \/ resp.body = Nothing

\* a serialization that puts the user-added headers before the content
\* headers
Str_headers_first(resp) ==
    Join(<<L_http \o resp.version \o <<" ">> \o Dec(resp.status) \o <<" ">>
                  \o web_responses[resp.status]>>
         \o HeaderLines(resp)
         \o <<L_content_type \o resp.content_type,
               L_content_length \o Dec(Len(resp.body[1])),
               L_connection_close>>
         \o <<<<"\n">> \o resp.body[1]>>)

Str(resp) ==
    Join(<<L_http \o resp.version \o <<" ">> \o Dec(resp.status) \o <<" ">>
                  \o web_responses[resp.status],
           L_content_type \o resp.content_type,
           L_content_length \o Dec(Len(resp.body[1])),
           L_connection_close>>
         \o HeaderLines(resp)
         \o <<<<"\n">> \o resp.body[1]>>)

\* the UTF-8 bytes of the characters that take more than one byte; every
\* other character of the model is ASCII and is its own byte
Wide == [c \in {"U+00E9"} |-> <<"0xC3", "0xA9">>]

\* str.encode("utf-8"): the bytes of every character, in order; a text of
\* ASCII characters is its own encoding
RECURSIVE encode(_)
encode(text) ==
    IF \A k \in 1..Len(text) : text[k] \notin DOMAIN Wide THEN text
    ELSE IF Len(text) = 1
    THEN (IF text[1] \in DOMAIN Wide THEN Wide[text[1]] ELSE text)
    ELSE LET h == Len(text) \div 2
         IN encode(Slice(text, 1, h)) \o encode(Slice(text, h + 1, Len(text)))

(***************************************************************************)
(* UrlDispatcher.resolve: the outcome of the call for a request.           *)
(*   kind "ok"     it returns (match.groupdict(), handler)                 *)
(*   kind "raise"  it raises exc                                           *)
(*   kind "none"   the loop body never runs and it returns None            *)
(***************************************************************************)
S_could_not_find == <<"C", "o", "u", "l", "d", " ", "n", "o", "t", " ", "f", "i", "n", "d", " ">>
S_not_allowed_for ==
    <<" ", "n", "o", "t", " ", "a", "l", "l", "o", "w", "e", "d", " ", "f", "o", "r", " ">>
S_redefinition ==
    <<"r", "e", "d", "e", "f", "i", "n", "i", "t", "i", "o", "n", " ", "o", "f", " ", "g", "r",
      "o", "u", "p", " ", "n", "a", "m", "e">>
S_cannot_unpack ==
    <<"c", "a", "n", "n", "o", "t", " ", "u", "n", "p", "a", "c", "k", " ", "n", "o", "n", "-",
      "i", "t", "e", "r", "a", "b", "l", "e", " ", "N", "o", "n", "e", "T", "y", "p", "e", " ",
      "o", "b", "j", "e", "c", "t">>
S_partial_not_defined ==
    <<"n", "a", "m", "e", " ", "'", "p", "a", "r", "t", "i", "a", "l", "'", " ", "i", "s", " ",
      "n", "o", "t", " ", "d", "e", "f", "i", "n", "e", "d">>

\* a failure that is not an error-taxonomy value; args is its str()
Failure(cls, args) == [cls |-> cls, args |-> args]

NoHandler == None

Returned(match_info, handler) ==
    [kind |-> "ok", match_info |-> match_info, handler |-> handler, exc |-> Failure(None, <<>>)]

Raised(exc) == [kind |-> "raise", match_info |-> <<>>, handler |-> NoHandler, exc |-> exc]

ReturnedNone ==
    [kind |-> "none", match_info |-> <<>>, handler |-> NoHandler, exc |-> Failure(None, <<>>)]

\* resolve without the comparison of the methods
resolve_any_method(rs, method, raw_path) ==
    IF rs = <<>> THEN ReturnedNone
    ELSE LET first == rs[1]
             match == re_match(first.pattern, raw_path)
         IN IF BadPattern(first.pattern)
            THEN Raised(Failure("re.error", S_redefinition))
            ELSE IF ~match.ok
            THEN Raised(HTTPNotFound(Some(S_could_not_find \o raw_path)))
            ELSE Returned(groupdict(match), first.handler)

resolve(rs, method, raw_path) ==
    IF rs = <<>> THEN ReturnedNone
    ELSE LET first == rs[1]
             match == re_match(first.pattern, raw_path)
         IN IF BadPattern(first.pattern)
            THEN Raised(Failure("re.error", S_redefinition))
            ELSE IF ~match.ok
            THEN Raised(HTTPNotFound(Some(S_could_not_find \o raw_path)))
            ELSE IF first.method # method
            THEN Raised(HTTPNotFound(Some(MethodText[method] \o S_not_allowed_for \o raw_path)))
            ELSE Returned(groupdict(match), first.handler)

(***************************************************************************)
(* The state machine.                                                      *)
(***************************************************************************)
Conns == 1..MaxConns

\* Server._transport when it is None
NoTransport == 0

\* the lists of middleware an Application is constructed with
MiddlewareLists == {<<>>, <<"A", "B">>}

NoOutcome == [k |-> "none", v |-> Failure(None, <<>>)]

\* what the awaited handler can do: return a value or raise
Outcomes ==
    {[k |-> "return", v |-> Response(Some(T_hello), 200, T_text_plain)],
     [k |-> "return", v |-> Response(Nothing, 200, T_text_plain)],
     [k |-> "return", v |-> Failure("str", T_hello)],
     [k |-> "raise", v |-> HTTPNotFound(Some(T_nope))],
     [k |-> "raise", v |-> HTTPBadRequest(Some(T_nope))],
     [k |-> "raise", v |-> HTTPFound(T_login, Some(T_nope))],
     [k |-> "raise", v |-> HTTPFound(T_login, Nothing)],
     [k |-> "raise", v |-> Failure("Exception", T_boom)]}

\* Request.__init__, with the task that runs Application._handler for it
\*   pc        "scheduled", "awaiting" (the handler), "done" (returned),
\*             "failed" (an error escaped _handler)
\*   resolved  the outcome of resolve(), once called
\*   log       the middlewares and handlers entered, in order
\*   outcome   what the awaited handler did
\*   handed    the values response_writer was called with
\*   sent      the calls of transport.write: the transport and the bytes
\*   error     the error that escaped _handler
\*   assigned  the number of assignments to match_info
\* (Request_prefilled is a Request whose match info starts with an entry)
Request_prefilled(c, method, raw_path) ==
    [conn |-> c, method |-> method, raw_path |-> raw_path,
     match_info |-> [name \in {<<"p", "a", "t", "h">>} |-> raw_path],
     pc |-> "scheduled", resolved |-> Nothing, log |-> <<>>, outcome |-> NoOutcome,
     handed |-> <<>>, sent |-> <<>>, error |-> None, assigned |-> 0]

Request(c, method, raw_path) ==
    [conn |-> c, method |-> method, raw_path |-> raw_path, match_info |-> <<>>,
     pc |-> "scheduled", resolved |-> Nothing, log |-> <<>>, outcome |-> NoOutcome,
     handed |-> <<>>, sent |-> <<>>, error |-> None, assigned |-> 0]

\* the route tables the served application has registered when run_app is
\* called: none, the one of example.py, one with a concrete path first, and
\* one whose only pattern has a literal prefix
ServedTables ==
    {<<>>,
     add_route(<<>>, "GET", P_username, "h1"),
     add_route(add_route(<<>>, "GET", P_foo, "h1"), "GET", P_username, "h2"),
     add_route(<<>>, "GET", P_user_posts, "h1")}

\* what str(response).encode() gives: nothing yet, the bytes, or the error
\* that str() raised
NotWritten == [k |-> "none", v |-> <<>>]

Bytes(data) == [k |-> "bytes", v |-> data]

WriteError(cls) == [k |-> "error", v |-> <<cls>>]

\* no Response is under construction outside the dispatch
NoObject ==
    /\ response = Nothing
    /\ written = NotWritten

\* the call of startup() or shutdown() in progress: none yet
NotStarted == [phase |-> "none", pc |-> "idle", calls |-> <<>>, error |-> None]

\* Application.__init__: both hook lists are empty
NoHooks ==
    /\ on_startup = <<>>
    /\ on_shutdown = <<>>
    /\ lifecycle = NotStarted

\* the adapter and the event loop before the first connection
Idle ==
    /\ transport = NoTransport
    /\ url = Nothing
    /\ conn = [c \in Conns |-> "new"]
    /\ wire = [c \in Conns |-> <<>>]
    /\ tasks = <<>>

\* run_app has made the protocol instance and the server listens
Init ==
    /\ routes \in ServedTables
    /\ resolution = Nothing
    /\ middlewares \in MiddlewareLists
    /\ Idle
    /\ NoObject
    /\ NoHooks

\* Server.connection_made; connections are numbered in the order in which
\* the server accepts them
ConnectionMade(c) ==
    /\ conn[c] = "new"
    /\ \A d \in 1..(c - 1) : conn[d] # "new"
    /\ conn' = [conn EXCEPT ![c] = "open"]
    /\ transport' = c
    /\ UNCHANGED <<routes, resolution, middlewares, url, wire, tasks, responseVars, hookVars>>

\* Server.connection_lost: the peer went away, or the transport was closed
ConnectionLost(c) ==
    /\ conn[c] \in {"open", "closed"}
    /\ conn' = [conn EXCEPT ![c] = "lost"]
    /\ transport' = NoTransport
    /\ UNCHANGED <<routes, resolution, middlewares, url, wire, tasks, responseVars, hookVars>>

\* Server.data_received with a complete message: the parser calls on_url
\* and then on_message_complete, which creates the task
DataReceived(c, method, raw_path) ==
    /\ conn[c] = "open"
    /\ Len(tasks) < MaxRequests
    /\ url' = Some(raw_path)
    /\ tasks' = Append(tasks, Request(c, method, raw_path))
    /\ UNCHANGED <<routes, resolution, middlewares, transport, conn, wire, responseVars,
                   hookVars>>

\* Server.response_writer(resp), called by task i
response_writer(i, t, resp) ==
    LET u == [t EXCEPT !.handed = Append(@, resp)] IN
    IF transport = NoTransport
    THEN /\ tasks' = [tasks EXCEPT ![i] = [u EXCEPT !.pc = "failed", !.error = "AttributeError"]]
         /\ UNCHANGED <<conn, wire>>
    ELSE IF StrFails(resp)
    THEN /\ tasks' = [tasks EXCEPT ![i] = [u EXCEPT !.pc = "failed", !.error = "TypeError"]]
         /\ UNCHANGED <<conn, wire>>
    ELSE LET data == encode(Str(resp)) IN
         /\ tasks' = [tasks EXCEPT ![i] = [u EXCEPT !.pc = "done",
                                    !.sent = Append(@, [to |-> transport, data |-> data])]]
         /\ wire' = [wire EXCEPT ![transport] =
                        IF conn[transport] = "open" THEN Append(@, data) ELSE @]
         /\ conn' = [conn EXCEPT ![transport] = IF @ = "open" THEN "closed" ELSE @]

\* an end of _handler that answers a value that is no Response with a 500
Finish_with_500(i, t, resp) ==
    IF ~IsResponse(resp)
    THEN response_writer(i, t, format_exception(resp.args, CHOOSE trace \in Traces : TRUE))
    ELSE response_writer(i, t, resp)

\* the end of Application._handler: the isinstance check, then the writer
Finish(i, t, resp) ==
    IF ~IsResponse(resp)
    THEN /\ tasks' = [tasks EXCEPT ![i] = [t EXCEPT !.pc = "failed", !.error = "RuntimeError"]]
         /\ UNCHANGED <<conn, wire>>
    ELSE response_writer(i, t, resp)

\* except clauses in which the clause for Exception comes first
Caught_as_failure(exc, trace) ==
    IF IsHTTPException(exc)
    THEN format_exception(IF exc.body = Nothing THEN <<>> ELSE exc.body[1], trace)
    ELSE format_exception(exc.args, trace)

\* the except clauses of Application._handler for a raised exc
Caught(exc, trace) == IF IsHTTPException(exc) THEN exc ELSE format_exception(exc.args, trace)

\* Application._handler from its start to the await of the handler, or to
\* its end when resolve or the middleware loop raises
HandlerStart(i) ==
    /\ i \in 1..Len(tasks)
    /\ tasks[i].pc = "scheduled"
    /\ LET r == resolve(routes, tasks[i].method, tasks[i].raw_path)
           t == [tasks[i] EXCEPT !.resolved = Some(r)]
       IN \E trace \in Traces :
            CASE r.kind = "none" ->
                    Finish(i, t, Caught(Failure("TypeError", S_cannot_unpack), trace))
              [] r.kind = "raise" ->
                    Finish(i, t, Caught(r.exc, trace))
              [] r.kind = "ok" /\ middlewares # <<>> ->
                    Finish(i, [t EXCEPT !.match_info = r.match_info, !.assigned = @ + 1],
                           Caught(Failure("NameError", S_partial_not_defined), trace))
              [] r.kind = "ok" /\ middlewares = <<>> ->
                    /\ tasks' = [tasks EXCEPT ![i] =
                                    [t EXCEPT !.match_info = r.match_info,
                                              !.assigned = @ + 1, !.pc = "awaiting",
                                              !.log = Append(@, r.handler)]]
                    /\ UNCHANGED <<conn, wire>>
    /\ UNCHANGED <<routes, resolution, middlewares, transport, url, responseVars, hookVars>>

\* Application._handler from the completion of the awaited handler on
HandlerDone(i, out) ==
    /\ i \in 1..Len(tasks)
    /\ tasks[i].pc = "awaiting"
    /\ LET t == [tasks[i] EXCEPT !.outcome = out]
       IN \E trace \in Traces :
            IF out.k = "raise"
            THEN Finish(i, t, Caught(out.v, trace))
            ELSE Finish(i, t, out.v)
    /\ UNCHANGED <<routes, resolution, middlewares, transport, url, responseVars, hookVars>>

Next ==
    \/ \E c \in Conns : ConnectionMade(c)
    \/ \E c \in Conns : ConnectionLost(c)
    \/ \E c \in Conns, method \in ReqMethods, raw_path \in ServedPaths :
          DataReceived(c, method, raw_path)
    \/ \E i \in 1..MaxRequests : HandlerStart(i)
    \/ \E i \in 1..MaxRequests, out \in Outcomes : HandlerDone(i, out)

Spec == Init /\ [][Next]_vars

(***************************************************************************)
(* The router on its own: a route table is built by add_route calls and    *)
(* resolve() is applied to a request.                                      *)
(***************************************************************************)
NoResolution == Nothing

Resolution(method, raw_path, result) ==
    Some([method |-> method, raw_path |-> raw_path, result |-> result])

RouterInit ==
    /\ routes = <<>>
    /\ resolution = NoResolution
    /\ middlewares = <<>>
    /\ Idle
    /\ NoObject
    /\ NoHooks

\* app.router.add_route(method, path, handler), before any request
AddRoute(method, path, handler) ==
    /\ resolution = NoResolution
    /\ Len(add_route(routes, method, path, handler)) <= MaxRoutes
    /\ routes' = add_route(routes, method, path, handler)
    /\ UNCHANGED <<resolution, middlewares, transport, url, conn, wire, tasks, responseVars,
                   hookVars>>

\* self._router.resolve(request) for a request with this method and path
Resolve(method, raw_path) ==
    /\ resolution' = Resolution(method, raw_path, resolve(routes, method, raw_path))
    /\ UNCHANGED <<routes, middlewares, transport, url, conn, wire, tasks, responseVars,
                   hookVars>>

RouterNext ==
    \/ \E method \in Methods, path \in RoutePaths, handler \in Handlers :
          AddRoute(method, path, handler)
    \/ \E method \in ReqMethods, raw_path \in ReqPaths : Resolve(method, raw_path)

RouterSpec == RouterInit /\ [][RouterNext]_vars

(***************************************************************************)
(* The adapter under concurrency: run_app hands create_server a factory    *)
(* that returns the one protocol instance it made, so every accepted       *)
(* connection calls connection_made, data_received and connection_lost on  *)
(* that instance; the parser reports every complete message it is fed.     *)
(***************************************************************************)
\* the application of example.py with its route, without middleware
ConnInit ==
    /\ routes = add_route(<<>>, "GET", P_username, "h1")
    /\ resolution = Nothing
    /\ middlewares = <<>>
    /\ Idle
    /\ NoObject
    /\ NoHooks

\* the raw paths the clients of example.py ask for
ConnPaths == {R_alice, R_alice_extra}

\* what the handler of example.py does: it returns a Response with a body
ConnOutcomes == {[k |-> "return", v |-> Response(Some(T_hello), 200, T_text_plain)]}

\* Server.data_received with a further complete message on a connection
\* whose earlier request is dispatched and not yet answered
Pipelined(c, method, raw_path) ==
    /\ conn[c] = "open"
    /\ \E i \in 1..Len(tasks) : tasks[i].conn = c
    /\ Len(tasks) < MaxRequests + MaxPipelined
    /\ url' = Some(raw_path)
    /\ tasks' = Append(tasks, Request(c, method, raw_path))
    /\ UNCHANGED <<routes, resolution, middlewares, transport, conn, wire, responseVars,
                   hookVars>>

ConnNext ==
    \/ \E c \in Conns : ConnectionMade(c)
    \/ \E c \in Conns : ConnectionLost(c)
    \/ \E c \in Conns, raw_path \in ConnPaths : DataReceived(c, "GET", raw_path)
    \/ \E c \in Conns, raw_path \in ConnPaths : Pipelined(c, "GET", raw_path)
    \/ \E i \in 1..(MaxRequests + MaxPipelined) : HandlerStart(i)
    \/ \E i \in 1..(MaxRequests + MaxPipelined), out \in ConnOutcomes : HandlerDone(i, out)

ConnSpec == ConnInit /\ [][ConnNext]_vars

(***************************************************************************)
(* A Response on its own: it is constructed, headers and a body are added  *)
(* to it, and it is serialized as response_writer serializes it.           *)
(***************************************************************************)
T_cafe == <<"c", "a", "f", "U+00E9">>
T_x_tag == <<"X", "-", "T", "a", "g">>

\* the bodies, statuses and content types a Response is constructed with
Bodies == {Nothing, Some(T_hello), Some(T_cafe)}

Statuses == {200, 404, 600}

ContentTypes == {T_text_plain, T_text_html}

HeaderKeys == {T_location, T_x_tag}

HeaderValues == {T_login, T_hello}

\* Response(...) and the error-taxonomy values, with and without a reason
InitialResponses ==
    {Response(body, status, content_type) :
        body \in Bodies, status \in Statuses, content_type \in ContentTypes}
    \cup {HTTPNotFound(Some(T_nope)), HTTPFound(T_login, Some(T_nope)),
          HTTPFound(T_login, Nothing)}

ResponseInit ==
    /\ routes = <<>>
    /\ resolution = Nothing
    /\ middlewares = <<>>
    /\ Idle
    /\ NoHooks
    /\ response \in InitialResponses
    /\ written = NotWritten

\* response.add_header(key, value)
AddHeader(key, value) ==
    /\ written = NotWritten
    /\ Len(add_header(response, key, value).headers) <= MaxHeaders
    /\ response' = add_header(response, key, value)
    /\ UNCHANGED <<written, dispatchVars, hookVars>>

\* response.add_body(data)
AddBody(data) ==
    /\ written = NotWritten
    /\ response' = add_body(response, data)
    /\ UNCHANGED <<written, dispatchVars, hookVars>>

\* str(response).encode(self._encoding), the argument of transport.write
Write ==
    /\ written = NotWritten
    /\ written' = IF StrFails(response) THEN WriteError("TypeError")
                  ELSE Bytes(encode(Str(response)))
    /\ UNCHANGED <<response, dispatchVars, hookVars>>

ResponseNext ==
    \/ \E key \in HeaderKeys, value \in HeaderValues : AddHeader(key, value)
    \/ \E data \in {T_hello, T_cafe} : AddBody(data)
    \/ Write

ResponseSpec == ResponseInit /\ [][ResponseNext]_vars

(***************************************************************************)
(* Application.startup and Application.shutdown.  Each calls every hook    *)
(* of its list with the application, which makes one coroutine per hook,   *)
(* and awaits asyncio.gather of the coroutines: gather runs them           *)
(* concurrently, returns when all have finished and raises as soon as one  *)
(* fails.  From Python 3.10 on gather has no loop parameter and the call   *)
(* raises TypeError before any coroutine runs.                             *)
(***************************************************************************)
\* the coroutine functions an application registers as hooks
Hooks == {"s1", "s2"}

\* the Application the hooks are called with
App == "app"

HookDispatchIdle ==
    /\ routes = <<>>
    /\ resolution = Nothing
    /\ middlewares = <<>>
    /\ Idle
    /\ NoObject

HookInit ==
    /\ HookDispatchIdle
    /\ NoHooks

\* app.on_startup.append(hook), before the application is run
OnStartupAppend(hook) ==
    /\ lifecycle = NotStarted
    /\ Len(on_startup) < MaxHooks
    /\ on_startup' = Append(on_startup, hook)
    /\ UNCHANGED <<on_shutdown, lifecycle, dispatchVars, responseVars>>

\* app.on_shutdown.append(hook), before the application is run
OnShutdownAppend(hook) ==
    /\ lifecycle = NotStarted
    /\ Len(on_shutdown) < MaxHooks
    /\ on_shutdown' = Append(on_shutdown, hook)
    /\ UNCHANGED <<on_startup, lifecycle, dispatchVars, responseVars>>

\* coros = [func(self) for func in hooks], then the call of gather: with a
\* gather that takes loop the coroutines are scheduled, otherwise the call
\* raises and they never run
Gather(phase, hooks, takes_loop) ==
    [phase |-> phase,
     pc |-> IF takes_loop THEN "gathering" ELSE "raised",
     calls |-> [k \in 1..Len(hooks) |->
                  [hook |-> hooks[k], arg |-> App,
                   state |-> IF takes_loop THEN "pending" ELSE "created"]],
     error |-> IF takes_loop THEN None ELSE "TypeError"]

\* Application.startup up to its await, called by run_app
Startup ==
    /\ lifecycle.phase = "none"
    /\ \E takes_loop \in BOOLEAN : lifecycle' = Gather("startup", on_startup, takes_loop)
    /\ UNCHANGED <<on_startup, on_shutdown, dispatchVars, responseVars>>

\* Application.shutdown up to its await, called by run_app on SIGTERM or
\* KeyboardInterrupt once startup() has returned
Shutdown ==
    /\ lifecycle.phase = "startup"
    /\ lifecycle.pc = "returned"
    /\ lifecycle' = Gather("shutdown", on_shutdown, TRUE)
    /\ UNCHANGED <<on_startup, on_shutdown, dispatchVars, responseVars>>

\* the coroutine of the k-th hook ends: it returns, or it raises
HookDone(k, ok) ==
    /\ k \in 1..Len(lifecycle.calls)
    /\ lifecycle.calls[k].state = "pending"
    /\ lifecycle' = [lifecycle EXCEPT !.calls[k].state = IF ok THEN "finished" ELSE "failed"]
    /\ UNCHANGED <<on_startup, on_shutdown, dispatchVars, responseVars>>

\* a wait that ends with the first hook that finishes
GatherReturn_first_completed ==
    /\ lifecycle.pc = "gathering"
    /\ \E k \in 1..Len(lifecycle.calls) : lifecycle.calls[k].state = "finished"
    /\ lifecycle' = [lifecycle EXCEPT !.pc = "returned"]
    /\ UNCHANGED <<on_startup, on_shutdown, dispatchVars, responseVars>>

\* await asyncio.gather(*coros) returns: every coroutine has finished
GatherReturn ==
    /\ lifecycle.pc = "gathering"
    /\ \A k \in 1..Len(lifecycle.calls) : lifecycle.calls[k].state = "finished"
    /\ lifecycle' = [lifecycle EXCEPT !.pc = "returned"]
    /\ UNCHANGED <<on_startup, on_shutdown, dispatchVars, responseVars>>

\* await asyncio.gather(*coros) raises the failure of a hook, while the
\* other coroutines go on
GatherRaise ==
    /\ lifecycle.pc = "gathering"
    /\ \E k \in 1..Len(lifecycle.calls) : lifecycle.calls[k].state = "failed"
    /\ lifecycle' = [lifecycle EXCEPT !.pc = "raised", !.error = "Exception"]
    /\ UNCHANGED <<on_startup, on_shutdown, dispatchVars, responseVars>>

HookNext ==
    \/ \E hook \in Hooks : OnStartupAppend(hook)
    \/ \E hook \in Hooks : OnShutdownAppend(hook)
    \/ Startup
    \/ Shutdown
    \/ \E k \in 1..(MaxHooks + 1), ok \in BOOLEAN : HookDone(k, ok)
    \/ GatherReturn
    \/ GatherRaise

HookSpec == HookInit /\ [][HookNext]_vars

(***************************************************************************)
(* Notions the properties below are stated with.                           *)
(***************************************************************************)
Tasks == {tasks[i] : i \in 1..Len(tasks)}

\* the call of resolve() the router specification has made, if any
Resolutions == {resolution[k] : k \in 1..Len(resolution)}

\* the tasks whose _handler has called resolve()
Resolved == {t \in Tasks : t.resolved # Nothing}

\* the tasks whose _handler has ended, by returning or by an escaping error
Ended == {t \in Tasks : t.pc \in {"done", "failed"}}

\* the names between the braces of the placeholders of a registered path
Placeholders(path) ==
    {Slice(path, i + 1, j - 1) : <<i, j>> \in
        {x \in (1..Len(path)) \X (1..Len(path)) :
            /\ x[1] + 1 < x[2]
            /\ path[x[1]] = "{"
            /\ path[x[2]] = "}"
            /\ \A k \in (x[1] + 1)..(x[2] - 1) : path[k] \in WordChars}}

Concrete(path) == Placeholders(path) = {}

\* the text a compiled pattern stands for once every group is replaced by
\* the value the parameter map gives it
RECURSIVE Filled(_, _)
Filled(pattern, info) ==
    IF pattern = <<>> THEN <<>>
    ELSE (IF Head(pattern).t = "lit" THEN Head(pattern).v ELSE info[Head(pattern).v])
         \o Filled(Tail(pattern), info)

StartsWith(b, s) == Len(s) <= Len(b) /\ \A k \in 1..Len(s) : b[k] = s[k]

EndsWith(b, s) == Len(s) <= Len(b) /\ \A k \in 1..Len(s) : b[Len(b) - Len(s) + k] = s[k]

(***************************************************************************)
(* C1.  In a route table whose paths are all concrete, a request with the  *)
(* method and the path of a registered pair resolves to the handler        *)
(* registered for that pair, with an empty parameter map.                  *)
(***************************************************************************)
C1_ConcreteRoutesResolve ==
    \A r \in Resolutions : \A k \in 1..Len(routes) :
        (/\ \A j \in 1..Len(routes) : Concrete(routes[j].path)
         /\ routes[k].method = r.method
         /\ routes[k].path = r.raw_path)
        => (/\ r.result.kind = "ok"
            /\ r.result.handler = routes[k].handler
            /\ r.result.match_info = <<>>)

(***************************************************************************)
(* C2.  With /{username} registered for GET, a GET request for             *)
(* /alice/extra does not match: resolve() does not return the handler.     *)
(***************************************************************************)
C2_FullPathMatch ==
    \A r \in Resolutions :
        (/\ routes # <<>>
         /\ routes[1].method = "GET"
         /\ routes[1].path = P_username
         /\ r.method = "GET"
         /\ r.raw_path = R_alice_extra)
        => r.result.kind # "ok"

(***************************************************************************)
(* C3.  With /foo registered first and a placeholder route that matches    *)
(* /bar registered after it for the same method, a request for /bar fails  *)
(* with not-found: the first entry alone decides.                          *)
(***************************************************************************)
C3_FirstRouteDecides ==
    \A r \in Resolutions :
        (/\ Len(routes) >= 2
         /\ routes[1].path = P_foo
         /\ routes[1].method = r.method
         /\ r.raw_path = P_bar
         /\ \E k \in 2..Len(routes) :
               /\ routes[k].method = r.method
               /\ ~Concrete(routes[k].path)
               /\ re_match(routes[k].pattern, P_bar).ok)
        => (/\ r.result.kind = "raise"
            /\ r.result.exc.cls = "HTTPNotFound")

(***************************************************************************)
(* C4.  When some route's pattern matches the request path and no route    *)
(* whose pattern matches it is registered for the request's method, the    *)
(* dispatch hands the response writer one response, of status 404, and no  *)
(* handler is invoked.                                                     *)
(***************************************************************************)
MethodMismatch(t) ==
    /\ \E k \in 1..Len(routes) : re_match(routes[k].pattern, t.raw_path).ok
    /\ \A k \in 1..Len(routes) :
          re_match(routes[k].pattern, t.raw_path).ok => routes[k].method # t.method

C4_MethodMismatchIs404 ==
    \A t \in Resolved :
        MethodMismatch(t)
        => (/\ t \in Ended
            /\ Len(t.handed) = 1
            /\ t.handed[1].status = 404
            /\ t.log = <<>>
            /\ t.outcome = NoOutcome)

\* POST /alice with GET /{username} registered: the 404 is on the wire
C4_Witness ==
    \E t \in Resolved :
        /\ MethodMismatch(t)
        /\ routes[1].method = "GET"
        /\ routes[1].path = P_username
        /\ t.method = "POST" /\ t.raw_path = R_alice
        /\ t.pc = "done"
        /\ wire[t.conn] # <<>>

(***************************************************************************)
(* C5.  When resolve() returns and the first entry's pattern covered the   *)
(* whole path, it returns that entry's handler and a parameter map with    *)
(* exactly the placeholder names of the registered path as keys, each a    *)
(* non-empty run of word characters, such that the pattern with every      *)
(* placeholder replaced by its value is the request path.  GET /alice      *)
(* under GET /{username} gives username = alice.                           *)
(***************************************************************************)
FullMatch(r) ==
    /\ r.result.kind = "ok"
    /\ re_match(routes[1].pattern, r.raw_path).end = Len(r.raw_path)

C5_ParametersOfFullMatch ==
    \A r \in Resolutions :
        FullMatch(r)
        => LET info == r.result.match_info IN
           /\ r.result.handler = routes[1].handler
           /\ DOMAIN info = Placeholders(routes[1].path)
           /\ \A name \in DOMAIN info :
                 Len(info[name]) >= 1 /\ \A k \in 1..Len(info[name]) : info[name][k] \in WordChars
           /\ Filled(routes[1].pattern, info) = r.raw_path
           /\ (routes[1].path = P_username /\ r.raw_path = R_alice)
                 => info = [name \in {<<"u", "s", "e", "r", "n", "a", "m", "e">>} |->
                               <<"a", "l", "i", "c", "e">>]

\* a full match of a pattern with two placeholders
C5_Witness ==
    \E r \in Resolutions :
        /\ FullMatch(r)
        /\ routes[1].path = P_ab
        /\ r.raw_path = R_alice
        /\ Cardinality(DOMAIN r.result.match_info) = 2

(***************************************************************************)
(* C6.  With the middlewares A then B, a request that resolves enters A,   *)
(* then B, then the handler, and the handler is invoked exactly once.      *)
(***************************************************************************)
C6_MiddlewareOrder ==
    \A t \in Ended :
        (middlewares = <<"A", "B">> /\ t.resolved[1].kind = "ok")
        => t.log = <<"A", "B", t.resolved[1].handler>>

(***************************************************************************)
(* C7.  When the handler raises an error-taxonomy value, that value is     *)
(* the one response handed to the response writer, with the status of its  *)
(* class (404, 400, 302) and its reason as body; when it carries a reason  *)
(* and the adapter has a transport, the text written starts with the       *)
(* status line of that status and ends with a blank line and the reason.   *)
(***************************************************************************)
StatusLine(status) ==
    L_http \o <<"1", ".", "1", " ">> \o Dec(status) \o <<" ">> \o web_responses[status]

RaisedHTTP(t) == t.outcome.k = "raise" /\ IsHTTPException(t.outcome.v)

C7_TaxonomyValueIsResponse ==
    \A t \in Tasks :
        RaisedHTTP(t)
        => LET exc == t.outcome.v IN
           /\ t \in Ended
           /\ t.handed = <<exc>>
           /\ exc.cls = "HTTPNotFound" => exc.status = 404
           /\ exc.cls = "HTTPBadRequest" => exc.status = 400
           /\ exc.cls = "HTTPFound" => exc.status = 302
           /\ t.pc = "done"
                 => /\ Len(t.sent) = 1
                    /\ exc.body # Nothing
                    /\ StartsWith(t.sent[1].data, StatusLine(exc.status) \o <<"\n">>)
                    /\ EndsWith(t.sent[1].data, <<"\n", "\n">> \o exc.body[1])
           /\ (t.pc = "failed" /\ exc.body # Nothing) => t.error = "AttributeError"

\* a handler raised not-found with a reason and the 404 was written
C7_Witness ==
    \E t \in Tasks :
        /\ RaisedHTTP(t)
        /\ t.outcome.v.cls = "HTTPNotFound"
        /\ t.outcome.v.body = Some(T_nope)
        /\ t.pc = "done"
        /\ wire[t.conn] = <<t.sent[1].data>>

(***************************************************************************)
(* C8.  When the handler raises a failure that is not an error-taxonomy    *)
(* value, the one response handed to the response writer has status 500,   *)
(* content type text/html and a body that contains the failure's text.    *)
(***************************************************************************)
RaisedOther(t) == t.outcome.k = "raise" /\ ~IsHTTPException(t.outcome.v)

C8_GenericFailureIs500 ==
    \A t \in Tasks :
        RaisedOther(t)
        => /\ t \in Ended
           /\ Len(t.handed) = 1
           /\ t.handed[1].cls = "Response"
           /\ t.handed[1].status = 500
           /\ t.handed[1].content_type = T_text_html
           /\ t.handed[1].body # Nothing
           /\ Contains(t.handed[1].body[1], t.outcome.v.args)

\* a handler raised Exception("boom") and the 500 page was written
C8_Witness ==
    \E t \in Tasks :
        /\ RaisedOther(t)
        /\ t.outcome.v.args = T_boom
        /\ t.pc = "done"
        /\ wire[t.conn] = <<t.sent[1].data>>

(***************************************************************************)
(* C9.  As claimed: when the handler returns a value that is not a         *)
(* Response, a response of status 500 is handed to the response writer     *)
(* and no error escapes _handler.                                          *)
(***************************************************************************)
ReturnedNonResponse(t) == t.outcome.k = "return" /\ ~IsResponse(t.outcome.v)

C9_NonResponseIs500 ==
    \A t \in Tasks :
        ReturnedNonResponse(t)
        => /\ Len(t.handed) = 1
           /\ t.handed[1].status = 500
           /\ t.error = None

(***************************************************************************)
(* C9, amended.  When the handler returns a value that is not a Response,  *)
(* _handler ends with a RuntimeError that escapes it: the response writer  *)
(* is not called, so the dispatch writes nothing and does not close the    *)
(* connection.                                                             *)
(***************************************************************************)
C9_NonResponseRaises ==
    \A t \in Tasks :
        ReturnedNonResponse(t)
        => /\ t.pc = "failed"
           /\ t.error = "RuntimeError"
           /\ t.handed = <<>>
           /\ t.sent = <<>>

\* a handler returned a string while its connection was open
C9_Witness ==
    \E t \in Tasks :
        /\ ReturnedNonResponse(t)
        /\ t.error = "RuntimeError"
        /\ conn[t.conn] = "open"

(***************************************************************************)
(* C10.  Whatever the handler does (returns a Response, raises an          *)
(* error-taxonomy value, raises another failure), once _handler has ended  *)
(* on an adapter that still has its transport the response was written     *)
(* exactly once, to the request's connection, and that connection was      *)
(* closed.                                                                 *)
(***************************************************************************)
C10_WrittenOnceThenClosed ==
    \A t \in Ended :
        (/\ t.outcome.k \in {"return", "raise"}
         /\ ~ReturnedNonResponse(t)
         /\ t.error # "AttributeError")
        => /\ Len(t.sent) = 1
           /\ t.sent[1].to = t.conn
           /\ wire[t.conn] = <<t.sent[1].data>>
           /\ conn[t.conn] \in {"closed", "lost"}

(***************************************************************************)
(* C11.  With several connections accepted, every write of the response   *)
(* of a request goes to the connection the request was received on, and    *)
(* once the response is written that connection is closed.                 *)
(***************************************************************************)
C11_OwnConnection ==
    \A t \in Tasks :
        /\ \A k \in 1..Len(t.sent) : t.sent[k].to = t.conn
        /\ t.pc = "done" => conn[t.conn] \in {"closed", "lost"}

(***************************************************************************)
(* C12.  When a Response is serialized, the text is the status line        *)
(* HTTP/<version> <status> <reason phrase>, then the Content-Type line,    *)
(* the Content-Length line and Connection: close, then one line for every  *)
(* user-added header in insertion order, then an empty line and the body.  *)
(* For status 200, body hello and content type text/plain the text begins  *)
(* with HTTP/1.1 200 OK, contains Content-Length: 5 and Connection: close  *)
(* and ends with an empty line followed by hello.                          *)
(***************************************************************************)
NL == <<"\n">>

\* the lines "key: value" of the user-added headers from the k-th on, each
\* ended by a line break
RECURSIVE UserHeaderText(_, _)
UserHeaderText(headers, k) ==
    IF k > Len(headers) THEN <<>>
    ELSE headers[k][1] \o <<":", " ">> \o headers[k][2] \o NL \o UserHeaderText(headers, k + 1)

\* the text the claim describes for resp, with n as the value of Content-Length
ExpectedText(resp, n) ==
    L_http \o resp.version \o <<" ">> \o Dec(resp.status) \o <<" ">>
        \o web_responses[resp.status] \o NL
        \o L_content_type \o resp.content_type \o NL
        \o L_content_length \o Dec(n) \o NL
        \o L_connection_close \o NL
        \o UserHeaderText(resp.headers, 1)
        \o NL \o resp.body[1]

C12_SerializationOrder ==
    written.k = "bytes"
    => /\ \E n \in 0..Len(written.v) : written.v = encode(ExpectedText(response, n))
       /\ (/\ response.status = 200
           /\ response.body = Some(T_hello)
           /\ response.content_type = T_text_plain)
          => /\ StartsWith(written.v, StatusLine(200) \o NL)
             /\ Contains(written.v, NL \o L_content_length \o <<"5">> \o NL)
             /\ Contains(written.v, NL \o L_connection_close \o NL)
             /\ EndsWith(written.v, NL \o NL \o T_hello)

\* a response with two user-added headers and a body was serialized
C12_Witness ==
    /\ written.k = "bytes"
    /\ Len(response.headers) = 2
    /\ response.headers[1][1] = T_x_tag
    /\ response.headers[2][1] = T_location
    /\ response.status = 200
    /\ response.body = Some(T_hello)

(***************************************************************************)
(* C13.  startup(), and likewise shutdown(), calls every hook of its list  *)
(* exactly once, in list order, with the Application as argument; and it   *)
(* returns only when every hook has finished.                              *)
(***************************************************************************)
HookList == IF lifecycle.phase = "startup" THEN on_startup ELSE on_shutdown

C13_HooksRunOnce ==
    lifecycle.phase # "none"
    => /\ Len(lifecycle.calls) = Len(HookList)
       /\ \A k \in 1..Len(HookList) :
             /\ lifecycle.calls[k].hook = HookList[k]
             /\ lifecycle.calls[k].arg = App
       /\ lifecycle.pc = "returned"
             => \A k \in 1..Len(HookList) : lifecycle.calls[k].state = "finished"

\* shutdown() has returned after its two hooks finished
C13_Witness ==
    /\ lifecycle.phase = "shutdown"
    /\ lifecycle.pc = "returned"
    /\ Len(on_startup) = 2
    /\ on_shutdown = <<"s2", "s1">>

(***************************************************************************)
(* C14.  Whenever resolve(), the middleware chain or the handler raised a  *)
(* failure for a request, _handler has ended without an error that         *)
(* escapes it to the adapter's task, and it has called the response        *)
(* writer exactly once.  Stated for the dispatches that found the          *)
(* adapter's transport in place.                                           *)
(***************************************************************************)
FailureRaised(t) ==
    \/ t.resolved[1].kind # "ok"
    \/ middlewares # <<>>
    \/ t.outcome.k = "raise"

C14_FailuresDoNotEscape ==
    \A t \in Resolved :
        (FailureRaised(t) /\ t.error # "AttributeError")
        => /\ t.pc = "done"
           /\ t.error = None
           /\ Len(t.handed) = 1

(***************************************************************************)
(* C15.  The match info of a request is empty when the Request is made,    *)
(* is assigned at most once, is assigned (with the parameters resolve()    *)
(* returned) before the handler is invoked, and is still empty and         *)
(* unassigned when the resolution failed.                                  *)
(***************************************************************************)
C15_MatchInfoSetOnce ==
    \A t \in Tasks :
        /\ t.assigned <= 1
        /\ t.pc = "scheduled" => (t.match_info = <<>> /\ t.assigned = 0)
        /\ t.log # <<>> => (t.assigned = 1 /\ t.match_info = t.resolved[1].match_info)
        /\ (t.resolved # Nothing /\ t.resolved[1].kind # "ok")
              => (t.match_info = <<>> /\ t.assigned = 0)

\* the handler of GET /alice was invoked with username = alice, and the
\* dispatch has ended
C15_Witness ==
    \E t \in Ended :
        /\ t.log = <<"h1">>
        /\ t.assigned = 1
        /\ DOMAIN t.match_info = {<<"u", "s", "e", "r", "n", "a", "m", "e">>}
        /\ t.match_info[<<"u", "s", "e", "r", "n", "a", "m", "e">>] = <<"a", "l", "i", "c", "e">>

(***************************************************************************)
(* C16.  After any sequence of add_route calls no two entries of the       *)
(* route table have the same (method, compiled pattern) key; and           *)
(* registering a key that is present gives a table of the same length in   *)
(* which the entry of that key has the later handler at its old position   *)
(* and every other entry is as before.                                     *)
(***************************************************************************)
C16_KeysUnique ==
    /\ \A i, j \in 1..Len(routes) :
          (routes[i].method = routes[j].method /\ routes[i].pattern = routes[j].pattern)
          => i = j
    /\ \A method \in Methods, path \in RoutePaths, handler \in Handlers :
          LET after == add_route(routes, method, path, handler) IN
          \A i \in KeyIndex(routes, method, _format_pattern(path)) :
              /\ Len(after) = Len(routes)
              /\ after[i].method = method
              /\ after[i].pattern = _format_pattern(path)
              /\ after[i].handler = handler
              /\ \A j \in 1..Len(routes) : j # i => after[j] = routes[j]

\* a table of two entries for GET in which the key of the first entry is
\* registered again with the other handler
C16_Witness ==
    /\ Len(routes) = 2
    /\ routes[1].method = "GET" /\ routes[1].path = P_username /\ routes[1].handler = "h2"
    /\ routes[2].method = "GET" /\ routes[2].path = P_user_posts /\ routes[2].handler = "h1"
    /\ KeyIndex(routes, "GET", _format_pattern(P_username)) = {1}
    /\ add_route(routes, "GET", P_username, "h1")[1].handler = "h1"

(***************************************************************************)
(* C17.  The compiled pattern of a registered path has a group for every   *)
(* {name} placeholder and every other character of the path as a literal,  *)
(* the text after the last placeholder included: written back with {name}  *)
(* for its groups it is the path.  So /u/{id}/p does not match /u/1/o.     *)
(***************************************************************************)
\* the path a compiled pattern stands for
RECURSIVE PatternSource(_)
PatternSource(pattern) ==
    IF pattern = <<>> THEN <<>>
    ELSE (IF Head(pattern).t = "lit" THEN Head(pattern).v
          ELSE <<"{">> \o Head(pattern).v \o <<"}">>)
         \o PatternSource(Tail(pattern))

C17_LiteralsKept ==
    /\ \A k \in 1..Len(routes) : PatternSource(routes[k].pattern) = routes[k].path
    /\ \A r \in Resolutions :
          (/\ routes # <<>>
           /\ routes[1].path = P_user_posts
           /\ r.raw_path = R_user_other)
          => r.result.kind # "ok"

(***************************************************************************)
(* C18.  Serializing a Response whose body is absent succeeds and gives    *)
(* the status line and the header lines with no body; so does serializing  *)
(* an error-taxonomy value made without a reason, such as a redirect that  *)
(* carries only a Location.                                                *)
(***************************************************************************)
C18_AbsentBodySerializes ==
    (/\ written # NotWritten
     /\ response.body = Nothing
     /\ response.status \in DOMAIN web_responses)
    => /\ written.k = "bytes"
       /\ StartsWith(written.v, StatusLine(response.status) \o NL)
       /\ Contains(written.v, NL \o L_connection_close \o NL)
       /\ response.cls = "HTTPFound"
             => Contains(written.v, NL \o T_location \o <<":", " ">> \o T_login)

(***************************************************************************)
(* C19.  The value of the Content-Length line of a serialized response is  *)
(* the number of bytes of the body as written, that is of the encoded      *)
(* body, also for a body with characters that encode to several bytes.     *)
(***************************************************************************)
C19_ContentLengthIsByteLength ==
    written.k = "bytes"
    => Contains(written.v,
                NL \o L_content_length \o Dec(Len(encode(response.body[1]))) \o NL)

(***************************************************************************)
(* C20.  On one connection at most one Request is dispatched, the          *)
(* response writer writes to it at most once, and at most one response     *)
(* reaches it.                                                             *)
(***************************************************************************)
C20_OneRequestPerConnection ==
    \A c \in Conns :
        /\ Cardinality({i \in 1..Len(tasks) : tasks[i].conn = c}) <= 1
        /\ Cardinality({i \in 1..Len(tasks) :
                            \E k \in 1..Len(tasks[i].sent) : tasks[i].sent[k].to = c}) <= 1
        /\ Len(wire[c]) <= 1

(***************************************************************************)
(* C21.  For a request whose path no registered route matches, the empty   *)
(* route table included, resolve() raises not-found (it does not return    *)
(* without a pair of parameters and handler), and the dispatch hands the   *)
(* response writer one response, of status 404.                            *)
(***************************************************************************)
NoRouteMatches(t) == \A k \in 1..Len(routes) : ~re_match(routes[k].pattern, t.raw_path).ok

C21_NoRouteIs404 ==
    \A t \in Resolved :
        NoRouteMatches(t)
        => /\ t.resolved[1].kind = "raise"
           /\ t.resolved[1].exc.cls = "HTTPNotFound"
           /\ Len(t.handed) = 1
           /\ t.handed[1].status = 404

(***************************************************************************)
(* C22.  When the connection of a request is lost while its handler is     *)
(* awaited, the call of the response writer that follows does not fail:    *)
(* no error escapes _handler, and nothing is written to the lost           *)
(* connection.  Stated for responses that can be serialized.               *)
(***************************************************************************)
C22_WriterAfterLostConnection ==
    \A t \in Ended :
        (/\ conn[t.conn] = "lost"
         /\ t.outcome.k \in {"return", "raise"}
         /\ t.handed # <<>>
         /\ ~StrFails(t.handed[1]))
        => /\ t.error = None
           /\ \A k \in 1..Len(t.sent) : t.sent[k].to # NoTransport

====

